---- MODULE Spec2Model ----
(***************************************************************************)
(* Model of Models/parser.py: the formula Parser (classification,          *)
(* reconstruction and reference translation).                              *)
(*                                                                         *)
(* A Python str is a sequence of one-character strings.  A Python dict is  *)
(* a record whose field names are the dict's keys, a Python list is a      *)
(* sequence, None is the record NoneValue.  A call that may raise returns  *)
(* a record [ok, v, exc].                                                  *)
(*                                                                         *)
(* The classes Reference, Range, Function, Constant and Expression are     *)
(* imported by parser.py (lines 2-6); their behaviour is taken from the    *)
(* written description of the recognizers (sections 4.2 - 4.6).            *)
(***************************************************************************)
EXTENDS Integers, Sequences, FiniteSets, TLC

\* ------------------------------------------------------------------ bounds

\* Formula operands are the cells on the diagonal A1, B2, ... up to MaxRef.
MaxRef == 2
\* The cells given to translate(from_cell, to_cell) have column and row in 1..MaxCell.
MaxCell == 3

\* ------------------------------------------------------------- Python text

Letters == <<"A","B","C","D","E","F","G","H","I","J","K","L","M",
             "N","O","P","Q","R","S","T","U","V","W","X","Y","Z">>

Digits == <<"0","1","2","3","4","5","6","7","8","9">>

IsLetter(c) == \E i \in 1..Len(Letters) : Letters[i] = c

IsDigit(c) == \E i \in 1..Len(Digits) : Digits[i] = c

LetterValue(c) == CHOOSE i \in 1..Len(Letters) : Letters[i] = c

DigitValue(c) == (CHOOSE i \in 1..Len(Digits) : Digits[i] = c) - 1

\* None, and the raise / return of a call.
NoneValue == [py_none |-> TRUE]

IsNone(x) == "py_none" \in DOMAIN x

Return(v) == [ok |-> TRUE, v |-> v, exc |-> ""]

Raise(e) == [ok |-> FALSE, v |-> NoneValue, exc |-> e]

\* str.strip(): leading and trailing blanks removed.
RECURSIVE lstrip(_)
lstrip(s) == IF s # <<>> /\ Head(s) = " " THEN lstrip(Tail(s)) ELSE s

RECURSIVE rstrip(_)
rstrip(s) == IF s # <<>> /\ s[Len(s)] = " " THEN rstrip(SubSeq(s, 1, Len(s) - 1)) ELSE s

strip(s) == rstrip(lstrip(s))

\* sep.join(parts)
RECURSIVE join(_, _)
join(sep, parts) ==
    IF parts = <<>> THEN <<>>
    ELSE IF Len(parts) = 1 THEN parts[1]
    ELSE parts[1] \o sep \o join(sep, Tail(parts))

\* s.replace(c, ""): every occurrence of the character c deleted.
RECURSIVE replace_char(_, _)
replace_char(s, c) ==
    IF s = <<>> THEN <<>>
    ELSE (IF Head(s) = c THEN <<>> ELSE <<Head(s)>>) \o replace_char(Tail(s), c)

\* str(int) and int(str)
RECURSIVE nat_to_str(_)
nat_to_str(n) ==
    IF n < 10 THEN <<Digits[n + 1]>>
    ELSE nat_to_str(n \div 10) \o <<Digits[(n % 10) + 1]>>

int_to_str(n) == IF n < 0 THEN <<"-">> \o nat_to_str(-n) ELSE nat_to_str(n)

RECURSIVE str_to_nat(_)
str_to_nat(s) ==
    IF s = <<>> THEN 0
    ELSE 10 * str_to_nat(SubSeq(s, 1, Len(s) - 1)) + DigitValue(s[Len(s)])

\* The parenthesis depth after each character of s.
RECURSIVE paren_depth(_)
paren_depth(s) ==
    IF s = <<>> THEN <<>>
    ELSE LET before == paren_depth(SubSeq(s, 1, Len(s) - 1))
             last   == IF before = <<>> THEN 0 ELSE before[Len(before)]
             c      == s[Len(s)]
         IN  Append(before, last + (IF c = "(" THEN 1 ELSE IF c = ")" THEN -1 ELSE 0))

\* The pieces of s between the positions in cuts, from position start on.
RECURSIVE split_at(_, _, _)
split_at(s, cuts, start) ==
    LET later == {c \in cuts : c >= start}
    IN  IF later = {} THEN <<SubSeq(s, start, Len(s))>>
        ELSE LET c == CHOOSE m \in later : \A o \in later : m <= o
             IN  <<SubSeq(s, start, c - 1)>> \o split_at(s, cuts, c + 1)

\* The pieces of s and the cut characters themselves, in order.
RECURSIVE split_keep(_, _, _)
split_keep(s, cuts, start) ==
    LET later == {c \in cuts : c >= start}
    IN  IF later = {} THEN <<SubSeq(s, start, Len(s))>>
        ELSE LET c == CHOOSE m \in later : \A o \in later : m <= o
             IN  <<SubSeq(s, start, c - 1), <<s[c]>>>> \o split_keep(s, cuts, c + 1)

\* ------------------------------------------------- Expression (section 4.6)

\* Expression.operators: the fixed set of one-character operator tokens.
operators == {"+", "-", "*", "/", "^", "&", "=", "<", ">"}

\* Expression.has_balanced_parentheses
has_balanced_parentheses(s) ==
    LET d == paren_depth(s)
    IN  /\ \A i \in 1..Len(s) : d[i] >= 0
        /\ (s = <<>> \/ d[Len(s)] = 0)

\* s is one parenthesized group: its first "(" closes at its last character.
is_group(s) ==
    /\ Len(s) >= 2
    /\ s[1] = "("
    /\ s[Len(s)] = ")"
    /\ has_balanced_parentheses(s)
    /\ LET d == paren_depth(s) IN \A i \in 1..(Len(s) - 1) : d[i] >= 1

\* Positions of the operators of s at parenthesis depth 0.
top_level_operators(s) ==
    LET d == paren_depth(s)
    IN  {i \in 1..Len(s) : s[i] \in operators /\ d[i] = 0}

\* Expression.is_valid_expression: a parenthesized group, or a text with a
\* top-level operator; a lone operator character is left to rule 6 of
\* parse_expression.
is_valid_expression(s) ==
    /\ Len(s) > 1
    /\ has_balanced_parentheses(s)
    /\ (is_group(s) \/ top_level_operators(s) # {})

\* Expression(s).expression: one layer of enclosing parentheses stripped,
\* then operands and operators in left-to-right order.
expression_parts(s) ==
    LET inner  == IF is_group(s) THEN strip(SubSeq(s, 2, Len(s) - 1)) ELSE s
        pieces == split_keep(inner, top_level_operators(inner), 1)
        trimmed == [i \in 1..Len(pieces) |-> strip(pieces[i])]
    IN  SelectSeq(trimmed, LAMBDA p : p # <<>>)

\* str(Expression(s)): the parts joined by single blanks.
expression_str(s) == join(<<" ">>, expression_parts(s))

\* --------------------------------------------------- Reference (section 4.3)

\* Column letters to column number, bijective base 26 (A = 1 .. Z = 26, AA = 27).
RECURSIVE letters_to_number(_)
letters_to_number(s) ==
    IF s = <<>> THEN 0
    ELSE Len(Letters) * letters_to_number(SubSeq(s, 1, Len(s) - 1)) + LetterValue(s[Len(s)])

\* Column number to column letters; no letters for a number below 1.
RECURSIVE number_to_letters(_)
number_to_letters(n) ==
    IF n <= 0 THEN <<>>
    ELSE number_to_letters((n - 1) \div Len(Letters))
            \o <<Letters[((n - 1) % Len(Letters)) + 1]>>

\* Position of the "!" ending a quoted sheet prefix 'name'!, or 0.
sheet_prefix_end(s) ==
    LET ends == {j \in 3..(Len(s) - 1) :
                    /\ s[1] = "'"
                    /\ s[j] = "'"
                    /\ s[j + 1] = "!"
                    /\ \A k \in 2..(j - 1) : s[k] # "'"}
    IN  IF ends = {} THEN 0 ELSE (CHOOSE j \in ends : TRUE) + 1

\* Number of leading letters of s.
letter_run(s) ==
    LET runs == {k \in 0..Len(s) : \A i \in 1..k : IsLetter(s[i])}
    IN  CHOOSE k \in runs : \A o \in runs : o <= k

\* letters then digits, at least one of each, nothing else.
is_cell(s) ==
    LET k == letter_run(s)
    IN  /\ k >= 1
        /\ k < Len(s)
        /\ \A i \in (k + 1)..Len(s) : IsDigit(s[i])

\* Reference.is_valid_reference
is_valid_reference(s) ==
    LET p == sheet_prefix_end(s) IN is_cell(SubSeq(s, p + 1, Len(s)))

\* str(Reference): 'sheet'!col+row, or col+row without a sheet.  A missing
\* sheet name (None) is the empty text.
reference_str(c) ==
    (IF c.sheet_name = <<>> THEN <<>> ELSE <<"'">> \o c.sheet_name \o <<"'", "!">>)
        \o c.column_letter \o int_to_str(c.row_number)

\* Reference.to_dict(), in the key order of the expected output (lines 258-265).
reference_to_dict(c) == [reference |-> reference_str(c), components |-> c]

\* Reference(s): the fields parsed from the text.
reference_parse(s) ==
    LET p    == sheet_prefix_end(s)
        cell == SubSeq(s, p + 1, Len(s))
        k    == letter_run(cell)
    IN  [column_letter |-> SubSeq(cell, 1, k),
         row_number    |-> str_to_nat(SubSeq(cell, k + 1, Len(cell))),
         sheet_name    |-> IF p = 0 THEN <<>> ELSE SubSeq(s, 2, p - 2),
         column_number |-> letters_to_number(SubSeq(cell, 1, k))]

\* Reference.update_column_number: number and letters change together.
update_column_number(c, n) ==
    [c EXCEPT !.column_number = n, !.column_letter = number_to_letters(n)]

\* Reference.update_row_number
update_row_number(c, n) == [c EXCEPT !.row_number = n]

\* ------------------------------------------------------- Range (section 4.4)

top_level_colons(s) ==
    LET d == paren_depth(s) IN {i \in 1..Len(s) : s[i] = ":" /\ d[i] = 0}

\* Range.is_valid_range: exactly one top-level ":" between two valid references.
is_valid_range(s) ==
    /\ Cardinality(top_level_colons(s)) = 1
    /\ LET c == CHOOSE i \in top_level_colons(s) : TRUE
       IN  /\ is_valid_reference(SubSeq(s, 1, c - 1))
           /\ is_valid_reference(SubSeq(s, c + 1, Len(s)))

\* Range(s).to_dict(): both endpoints are full Reference nodes.
range_to_dict(s) ==
    LET c     == CHOOSE i \in top_level_colons(s) : TRUE
        start == reference_to_dict(reference_parse(SubSeq(s, 1, c - 1)))
        end   == reference_to_dict(reference_parse(SubSeq(s, c + 1, Len(s))))
    IN  [range |-> start.reference \o <<":">> \o end.reference,
         components |-> [start |-> start, end |-> end]]

\* ---------------------------------------------------- Constant (section 4.5)

T_TRUE == <<"T","R","U","E">>

T_FALSE == <<"F","A","L","S","E">>

is_integer_literal(s) ==
    LET body == IF s # <<>> /\ s[1] = "-" THEN Tail(s) ELSE s
    IN  body # <<>> /\ \A i \in 1..Len(body) : IsDigit(body[i])

\* Constant.is_valid_constant: an integer literal or a boolean keyword.
is_valid_constant(s) == is_integer_literal(s) \/ s = T_TRUE \/ s = T_FALSE

\* Constant(s).to_dict(): the typed value under the key 'constant'.
constant_to_dict(s) ==
    [constant |->
        IF s = T_TRUE THEN [type |-> "bool", int |-> 1]
        ELSE IF s = T_FALSE THEN [type |-> "bool", int |-> 0]
        ELSE IF s[1] = "-" THEN [type |-> "int", int |-> 0 - str_to_nat(Tail(s))]
        ELSE [type |-> "int", int |-> str_to_nat(s)]]

\* str(value) of a constant's typed value.
constant_str(v) ==
    IF v.type = "bool"
    THEN (IF v.int = 1 THEN <<"T","r","u","e">> ELSE <<"F","a","l","s","e">>)
    ELSE int_to_str(v.int)

\* ---------------------------------------------------- Function (section 4.2)

\* An identifier: a letter, then letters or digits.
is_identifier(s) ==
    /\ s # <<>>
    /\ IsLetter(s[1])
    /\ \A i \in 1..Len(s) : IsLetter(s[i]) \/ IsDigit(s[i])

\* Position of the first "(" of s, or 0.
first_paren(s) ==
    LET ps == {i \in 1..Len(s) : s[i] = "("}
    IN  IF ps = {} THEN 0 ELSE CHOOSE m \in ps : \A o \in ps : m <= o

\* Function.is_function_string: identifier "(" ... ")" spanning the whole text.
is_function_string(s) ==
    LET p == first_paren(s)
    IN  /\ p >= 2
        /\ is_identifier(SubSeq(s, 1, p - 1))
        /\ is_group(SubSeq(s, p, Len(s)))

\* Function(s).name
function_name(s) == SubSeq(s, 1, first_paren(s) - 1)

\* Function(s).parse_arguments(): the interior split at its top-level commas,
\* each argument trimmed; an empty interior has no arguments.
function_args(s) ==
    LET interior == SubSeq(s, first_paren(s) + 1, Len(s) - 1)
        d        == paren_depth(interior)
        commas   == {i \in 1..Len(interior) : interior[i] = "," /\ d[i] = 0}
        pieces   == split_at(interior, commas, 1)
    IN  IF strip(interior) = <<>> THEN <<>>
        ELSE [i \in 1..Len(pieces) |-> strip(pieces[i])]

\* str(Function): name(arg1, arg2, ...), the arguments joined by ", ".
function_str(name, args) == name \o <<"(">> \o join(<<",", " ">>, args) \o <<")">>

\* ------------------------------------------------- Python repr of a dict

T_NONE == <<"N","o","n","e">>

T_REPR_REFERENCE == <<"{","'","r","e","f","e","r","e","n","c","e","'",":"," ">>

T_REPR_COMPONENTS == <<","," ","'","c","o","m","p","o","n","e","n","t","s","'",":"," ","{","'","c","o","l","u","m","n","_","l","e","t","t","e","r","'",":"," ">>

T_REPR_ROW == <<","," ","'","r","o","w","_","n","u","m","b","e","r","'",":"," ">>

T_REPR_SHEET == <<","," ","'","s","h","e","e","t","_","n","a","m","e","'",":"," ">>

T_REPR_COLUMN == <<","," ","'","c","o","l","u","m","n","_","n","u","m","b","e","r","'",":"," ">>

T_REPR_END == <<"}","}">>

contains(s, c) == \E i \in 1..Len(s) : s[i] = c

RECURSIVE escape_quotes(_)
escape_quotes(s) ==
    IF s = <<>> THEN <<>>
    ELSE (IF Head(s) = "'" THEN <<"\\", "'">> ELSE <<Head(s)>>) \o escape_quotes(Tail(s))

\* repr(str): single quotes, or double quotes when the text holds a single
\* quote and no double quote.
repr_str(s) ==
    IF contains(s, "'") /\ ~contains(s, "\"")
    THEN <<"\"">> \o s \o <<"\"">>
    ELSE <<"'">> \o escape_quotes(s) \o <<"'">>

\* format(dict) of a Reference node inside an f-string: the dict's repr, its
\* keys in insertion order.
repr_reference_dict(node) ==
    T_REPR_REFERENCE \o repr_str(node.reference)
        \o T_REPR_COMPONENTS \o repr_str(node.components.column_letter)
        \o T_REPR_ROW \o int_to_str(node.components.row_number)
        \o T_REPR_SHEET
        \o (IF node.components.sheet_name = <<>> THEN T_NONE
            ELSE repr_str(node.components.sheet_name))
        \o T_REPR_COLUMN \o int_to_str(node.components.column_number)
        \o T_REPR_END

\* ----------------------------------------------------------------- Parser

\* The node kinds, by the key that tags the dict.
IsFunction(n) == "function" \in DOMAIN n

IsReference(n) == "reference" \in DOMAIN n

IsRange(n) == "range" \in DOMAIN n

IsExpression(n) == "expression" \in DOMAIN n

IsOperator(n) == "operator" \in DOMAIN n

IsConstant(n) == "constant" \in DOMAIN n

\* The mutant of ParserInit: the parentheses are not checked.
ParserInit_unchecked(formula_str) ==
    IF ~(formula_str # <<>> /\ formula_str[1] = "=")
    THEN [constructed |-> FALSE, exc |-> "ValueError", formula |-> <<>>, full_formula |-> <<>>]
    ELSE [constructed |-> TRUE, exc |-> "", formula |-> Tail(formula_str),
          full_formula |-> formula_str]

\* Parser.__init__(formula_str): the two checks, then the two attributes.
ParserInit(formula_str) ==
    IF ~(formula_str # <<>> /\ formula_str[1] = "=")
    THEN [constructed |-> FALSE, exc |-> "ValueError", formula |-> <<>>, full_formula |-> <<>>]
    ELSE IF ~has_balanced_parentheses(formula_str)
    THEN [constructed |-> FALSE, exc |-> "ValueError", formula |-> <<>>, full_formula |-> <<>>]
    ELSE [constructed |-> TRUE, exc |-> "", formula |-> Tail(formula_str),
          full_formula |-> formula_str]

\* The mutant of parse_expression: the generic expression test comes before
\* the constant test.
RECURSIVE parse_expression_reordered(_)
parse_expression_reordered(expr0) ==
    LET expr == strip(expr0)
    IN  IF is_function_string(expr)
        THEN LET args == function_args(expr)
             IN  [function   |-> function_str(function_name(expr), args),
                  components |-> [name      |-> function_name(expr),
                                  arguments |-> [i \in 1..Len(args) |->
                                                    parse_expression_reordered(args[i])]]]
        ELSE IF is_valid_range(expr) THEN range_to_dict(expr)
        ELSE IF is_valid_reference(expr) THEN reference_to_dict(reference_parse(expr))
        ELSE IF is_valid_expression(expr)
        THEN LET parts == expression_parts(expr)
             IN  [expression |-> expression_str(expr),
                  components |-> [i \in 1..Len(parts) |->
                                    parse_expression_reordered(parts[i])]]
        ELSE IF is_valid_constant(expr) THEN constant_to_dict(expr)
        ELSE IF (\E op \in operators : contains(expr, op)) /\ Len(expr) = 1
        THEN [operator |-> expr]
        ELSE NoneValue

\* Parser.parse_expression(expr) for a str: the if / elif chain of lines 37-75.
RECURSIVE parse_expression(_)
parse_expression(expr0) ==
    LET expr == strip(expr0)
    IN  IF is_function_string(expr)
        THEN LET args == function_args(expr)
             IN  [function   |-> function_str(function_name(expr), args),
                  components |-> [name      |-> function_name(expr),
                                  arguments |-> [i \in 1..Len(args) |->
                                                    parse_expression(args[i])]]]
        ELSE IF is_valid_range(expr) THEN range_to_dict(expr)
        ELSE IF is_valid_reference(expr) THEN reference_to_dict(reference_parse(expr))
        ELSE IF is_valid_constant(expr) THEN constant_to_dict(expr)
        ELSE IF is_valid_expression(expr)
        THEN LET parts == expression_parts(expr)
             IN  [expression |-> expression_str(expr),
                  components |-> [i \in 1..Len(parts) |-> parse_expression(parts[i])]]
        ELSE IF (\E op \in operators : contains(expr, op)) /\ Len(expr) = 1
        THEN [operator |-> expr]
        ELSE NoneValue

\* Parser.parse_expression(expr) for a list: neither isinstance test of lines
\* 28 and 37 holds, the method falls off its end.
parse_expression_list(expr) == NoneValue

\* Parser.parse_expression(expr) for a dict or None (lines 28-36).
RECURSIVE parse_expression_dict(_)
parse_expression_dict(expr) ==
    IF IsNone(expr) THEN NoneValue
    ELSE IF IsFunction(expr)
    THEN [expr EXCEPT !.components.arguments =
            [i \in 1..Len(expr.components.arguments) |->
                parse_expression_dict(expr.components.arguments[i])]]
    ELSE IF IsExpression(expr) THEN parse_expression_list(expr.components)
    ELSE expr

\* Parser.parse()
parse(formula) == parse_expression(formula)

\* Parser.to_dict()
to_dict(formula, parsed_formula) == parse(formula)

\* Parser.json_to_string(json_obj): Return(text), or the TypeError of a
\* membership test on None or of joining a None.
RECURSIVE json_to_string(_)
json_to_string(json_obj) ==
    IF IsNone(json_obj) THEN Raise("TypeError")
    ELSE IF IsFunction(json_obj)
    THEN LET func == json_obj.components
             args == [i \in 1..Len(func.arguments) |-> json_to_string(func.arguments[i])]
         IN  IF \E i \in 1..Len(args) : ~args[i].ok THEN Raise("TypeError")
             ELSE Return(func.name \o <<"(">>
                            \o join(<<",", " ">>, [i \in 1..Len(args) |-> args[i].v])
                            \o <<")">>)
    ELSE IF IsReference(json_obj)
    THEN LET cell_ref == json_obj.components
         IN  IF cell_ref.sheet_name = <<>>
             THEN Return(cell_ref.column_letter \o int_to_str(cell_ref.row_number))
             ELSE Return(<<"'">> \o cell_ref.sheet_name \o <<"'", "!">>
                            \o cell_ref.column_letter \o int_to_str(cell_ref.row_number))
    ELSE IF IsRange(json_obj)
    THEN LET range_obj == json_obj.components
         IN  Return(repr_reference_dict(range_obj.start) \o <<":">>
                        \o repr_reference_dict(range_obj.end))
    ELSE IF IsExpression(json_obj)
    THEN LET parts == [i \in 1..Len(json_obj.components) |->
                            json_to_string(json_obj.components[i])]
         IN  IF \E i \in 1..Len(parts) : ~parts[i].ok THEN Raise("TypeError")
             ELSE Return(<<"(">>
                            \o join(<<" ">>, [i \in 1..Len(parts) |-> parts[i].v])
                            \o <<")">>)
    ELSE IF IsOperator(json_obj) THEN Return(json_obj.operator)
    ELSE Return(constant_str(json_obj.constant))

\* Parser.reconstructed_formula
reconstructed_formula(formula) ==
    LET r == json_to_string(parse(formula))
    IN  IF r.ok THEN Return(<<"=">> \o r.v) ELSE r

\* The cached string of a node: the value under its kind key.
cached_string(n) ==
    IF IsNone(n) THEN T_NONE
    ELSE IF IsFunction(n) THEN n.function
    ELSE IF IsReference(n) THEN n.reference
    ELSE IF IsRange(n) THEN n.range
    ELSE IF IsExpression(n) THEN n.expression
    ELSE IF IsOperator(n) THEN n.operator
    ELSE constant_str(n.constant)

\* str(Function.from_dict(data)): the name and the arguments' strings.
function_from_dict_str(data) ==
    function_str(data.components.name,
                 [i \in 1..Len(data.components.arguments) |->
                    cached_string(data.components.arguments[i])])

\* Expression.from_dict({'components': text}).to_dict()['components']: the
\* parts of the text as nodes.
expression_from_dict_components(text) ==
    LET parts == expression_parts(text)
    IN  [i \in 1..Len(parts) |-> parse_expression(parts[i])]

\* translate: col_shift and row_shift of lines 168-172.
col_shift_of(from_cell, to_cell) ==
    reference_parse(to_cell).column_number - reference_parse(from_cell).column_number

row_shift_of(from_cell, to_cell) ==
    reference_parse(to_cell).row_number - reference_parse(from_cell).row_number

\* The mutant of update_reference: the rebuilt Reference loses its sheet name.
update_reference_unqualified(ref_dict, cs, rs) ==
    LET ref_obj == [ref_dict EXCEPT !.sheet_name = <<>>]
        moved   == update_row_number(
                        update_column_number(ref_obj, ref_obj.column_number + cs),
                        ref_obj.row_number + rs)
    IN  reference_to_dict(moved)

\* translate.update_reference(ref_dict)
update_reference(ref_dict, cs, rs) ==
    LET ref_obj == ref_dict
        moved   == update_row_number(
                        update_column_number(ref_obj, ref_obj.column_number + cs),
                        ref_obj.row_number + rs)
    IN  reference_to_dict(moved)

\* translate.recurse_translate(data) for a dict or None.  The loop of lines
\* 206-218 visits the kind key before 'components': the cached string is set
\* from the node as it is then, and the children are translated after it.
RECURSIVE recurse_translate(_, _, _)
recurse_translate(data, cs, rs) ==
    LET each(items) == [i \in 1..Len(items) |-> recurse_translate(items[i], cs, rs)]
        failed(rr)  == \E i \in 1..Len(rr) : ~rr[i].ok
        values(rr)  == [i \in 1..Len(rr) |-> rr[i].v]
    IN  IF IsNone(data) THEN Raise("TypeError")
        ELSE IF IsOperator(data) \/ IsConstant(data) THEN Return(data)
        ELSE IF IsReference(data)
        THEN LET updated_dict == update_reference(data.components, cs, rs)
                 updated_ref  == updated_dict.components
             IN  Return([data EXCEPT !.reference = reference_str(updated_ref),
                                     !.components = reference_to_dict(updated_ref).components])
        ELSE IF IsFunction(data)
        THEN LET keyed == [data EXCEPT !.function = function_from_dict_str(data)]
                 args  == each(keyed.components.arguments)
             IN  IF failed(args) THEN Raise("TypeError")
                 ELSE Return([keyed EXCEPT !.components.arguments = values(args)])
        ELSE IF IsRange(data)
        THEN LET reconstruction == range_to_dict(data.range)
                 keyed == [data EXCEPT !.range = reconstruction.range,
                                       !.components = reconstruction.components]
                 ends  == each(<<keyed.components.start, keyed.components.end>>)
             IN  Return([keyed EXCEPT !.components.start = ends[1].v,
                                      !.components.end = ends[2].v])
        ELSE LET keyed == [data EXCEPT !.expression = expression_str(data.expression),
                                       !.components =
                                            expression_from_dict_components(data.expression)]
                 parts == each(keyed.components)
             IN  IF failed(parts) THEN Raise("TypeError")
                 ELSE Return([keyed EXCEPT !.components = values(parts)])

\* The mutant of translate_tree: a tree kept from the last call is translated again.
translate_tree_kept(fresh, parsed_formula, cs, rs) ==
    recurse_translate(IF IsNone(parsed_formula) THEN fresh ELSE parsed_formula, cs, rs)

\* translate, line 228: recurse_translate(self.parse()); fresh is the tree
\* that self.parse() builds.
translate_tree(fresh, parsed_formula, cs, rs) == recurse_translate(fresh, cs, rs)

\* ------------------------------------------------------------------ inputs

Cell(c, r) == number_to_letters(c) \o int_to_str(r)

\* The cells translate is called with: the diagonal A1, B2, ... and the
\* cell in column A of the last row.
Cells == {Cell(i, i) : i \in 1..MaxCell} \cup {Cell(1, MaxCell)}

RefCells == {Cell(i, i) : i \in 1..MaxRef}

FirstCell == Cell(1, 1)

LastCell == Cell(MaxRef, MaxRef)

T_SUM == <<"S","U","M">>

T_MAX == <<"M","A","X">>

T_FOO == <<"f","o","o">>

SheetRef == <<"'","S","'","!">> \o FirstCell

RangeRef == FirstCell \o <<":">> \o LastCell

Operands == RefCells \cup {SheetRef, RangeRef, <<"5">>}

Call(name, a, sep, b) == name \o <<"(">> \o a \o sep \o b \o <<")">>

Binary(a, sp, op, b) == a \o sp \o <<op>> \o sp \o b

Arguments ==
    Operands \cup {<<"-","5">>,
                   Binary(FirstCell, <<" ">>, "+", LastCell),
                   Call(T_MAX, FirstCell, <<",", " ">>, LastCell)}

\* Formula bodies with one blank after a comma and around an operator:
\* operands, calls, binary expressions, a group, and texts no recognizer
\* accepts.
Bodies ==
    Arguments
    \cup {Call(T_SUM, FirstCell, <<",", " ">>, b) : b \in Arguments}
    \cup {Binary(FirstCell, <<" ">>, "+", b) : b \in Operands}
    \cup {Binary(FirstCell, <<" ">>, ">", <<"5">>),
          Call(T_SUM, <<"5">>, <<",", " ">>, SheetRef),
          <<"(">> \o FirstCell \o <<")">>,
          T_SUM \o <<"(", ")">>,
          T_FOO,
          Call(T_SUM, FirstCell, <<",", " ">>, T_FOO)}

\* The same shapes with other spacing, and degenerate texts.
SpacedBodies ==
    {Call(T_SUM, a, <<",">>, b) : a \in {FirstCell, <<"5">>}, b \in Arguments}
    \cup {Binary(a, <<>>, "+", b) : a \in RefCells, b \in Operands}
    \cup {<<>>, <<"+">>, <<" ">> \o FirstCell, FirstCell \o <<" ">>}

\* Texts the constructor refuses: no leading "=", unbalanced parentheses.
Malformed ==
    {<<>>,
     Call(T_SUM, FirstCell, <<",">>, LastCell),
     <<"=">> \o T_SUM \o <<"(">> \o FirstCell \o <<",">> \o LastCell,
     <<"=", ")">> \o FirstCell \o <<"(">>}

\* Constructor arguments of the translation runs.
Formulas == {<<"=">> \o b : b \in Bodies} \cup Malformed

\* Constructor arguments of the parsing runs.
AllFormulas == Formulas \cup {<<"=">> \o b : b \in SpacedBodies}

\* All nodes of a tree, parents before children.
RECURSIVE subnodes(_)
subnodes(n) ==
    LET flat(items) ==
            LET f[i \in 0..Len(items)] ==
                    IF i = 0 THEN <<>> ELSE f[i - 1] \o subnodes(items[i])
            IN  f[Len(items)]
    IN  IF IsNone(n) THEN <<n>>
        ELSE IF IsFunction(n) THEN <<n>> \o flat(n.components.arguments)
        ELSE IF IsExpression(n) THEN <<n>> \o flat(n.components)
        ELSE IF IsRange(n) THEN <<n, n.components.start, n.components.end>>
        ELSE <<n>>

\* ------------------------------------------------------------------- state

VARIABLES
    text,            \* the argument of Parser(...)
    constructed,     \* whether __init__ returned
    formula,         \* self.formula
    full_formula,    \* self.full_formula
    parsed_formula,  \* self.parsed_formula, NoneValue until translate sets it
    call,            \* the last call made
    arg,             \* the node given to parse_expression, else NoneValue
    ret,             \* the tree most recently returned to the caller
    ret_str,         \* the text returned by reconstructed_formula
    ret_self,        \* whether the last call returned the Parser itself
    exc,             \* the exception the last call raised, or ""
    col_shift,       \* translate's col_shift
    row_shift,       \* translate's row_shift
    chained          \* whether translate has been called on a Parser it had translated

vars == <<text, constructed, formula, full_formula, parsed_formula, call, arg,
          ret, ret_str, ret_self, exc, col_shift, row_shift, chained>>

\* The state after Parser(t).
Constructed(t) ==
    LET p == ParserInit(t)
    IN  /\ text = t
        /\ constructed = p.constructed
        /\ formula = p.formula
        /\ full_formula = p.full_formula
        /\ exc = p.exc
        /\ parsed_formula = NoneValue
        /\ call = "__init__"
        /\ arg = NoneValue
        /\ ret = NoneValue
        /\ ret_str = <<>>
        /\ ret_self = FALSE
        /\ col_shift = 0
        /\ row_shift = 0
        /\ chained = FALSE

Init == \E t \in Formulas : Constructed(t)

InitParse == \E t \in AllFormulas : Constructed(t)

\* p.parse()
Parse ==
    /\ constructed
    /\ call' = "parse"
    /\ ret' = parse(formula)
    /\ arg' = NoneValue
    /\ ret_str' = <<>>
    /\ ret_self' = FALSE
    /\ exc' = ""
    /\ UNCHANGED <<text, constructed, formula, full_formula, parsed_formula,
                   col_shift, row_shift, chained>>

\* p.to_dict()
ToDict ==
    /\ constructed
    /\ call' = "to_dict"
    /\ ret' = to_dict(formula, parsed_formula)
    /\ arg' = NoneValue
    /\ ret_str' = <<>>
    /\ ret_self' = FALSE
    /\ exc' = ""
    /\ UNCHANGED <<text, constructed, formula, full_formula, parsed_formula,
                   col_shift, row_shift, chained>>

\* p.reconstructed_formula
ReconstructedFormula ==
    /\ constructed
    /\ LET r == reconstructed_formula(formula)
       IN  /\ ret_str' = (IF r.ok THEN r.v ELSE <<>>)
           /\ exc' = r.exc
    /\ call' = "reconstructed_formula"
    /\ ret' = NoneValue
    /\ arg' = NoneValue
    /\ ret_self' = FALSE
    /\ UNCHANGED <<text, constructed, formula, full_formula, parsed_formula,
                   col_shift, row_shift, chained>>

\* p.parse_expression(N) for a node N of a tree that p.parse() built.
ParseExpressionNode ==
    /\ constructed
    /\ LET nodes == subnodes(parse(formula))
       IN  \E i \in 1..Len(nodes) :
              /\ arg' = nodes[i]
              /\ ret' = parse_expression_dict(nodes[i])
    /\ call' = "parse_expression"
    /\ ret_str' = <<>>
    /\ ret_self' = FALSE
    /\ exc' = ""
    /\ UNCHANGED <<text, constructed, formula, full_formula, parsed_formula,
                   col_shift, row_shift, chained>>

\* p.translate(from_cell, to_cell): the tree of a new parse() is translated
\* and stored; the trees handed out before are other objects.
Translate ==
    /\ constructed
    /\ LET fresh == parse(formula)
       IN  \E from_cell \in Cells, to_cell \in Cells :
              LET cs == col_shift_of(from_cell, to_cell)
                  rs == row_shift_of(from_cell, to_cell)
                  r  == translate_tree(fresh, parsed_formula, cs, rs)
              IN  /\ col_shift' = cs
                  /\ row_shift' = rs
                  /\ parsed_formula' = (IF r.ok THEN r.v ELSE parsed_formula)
                  /\ ret_self' = r.ok
                  /\ exc' = r.exc
    /\ chained' = (chained \/ ~IsNone(parsed_formula))
    /\ call' = "translate"
    /\ arg' = NoneValue
    /\ ret_str' = <<>>
    /\ UNCHANGED <<text, constructed, formula, full_formula, ret>>

\* Construction, then translate and to_dict calls in any order.
Next ==
    \/ Translate
    \/ ToDict

Spec == Init /\ [][Next]_vars

\* Construction, then the calls that read the formula only.
NextParse ==
    \/ Parse
    \/ ReconstructedFormula
    \/ ParseExpressionNode

SpecParse == InitParse /\ [][NextParse]_vars

\* ---------------------------------------------------------------- claims

\* The Reference components of a tree, left to right.
RECURSIVE references(_)
references(n) ==
    LET flat(items) ==
            LET f[i \in 0..Len(items)] ==
                    IF i = 0 THEN <<>> ELSE f[i - 1] \o references(items[i])
            IN  f[Len(items)]
    IN  IF IsNone(n) THEN <<>>
        ELSE IF IsFunction(n) THEN flat(n.components.arguments)
        ELSE IF IsExpression(n) THEN flat(n.components)
        ELSE IF IsRange(n) THEN <<n.components.start.components, n.components.end.components>>
        ELSE IF IsReference(n) THEN <<n.components>>
        ELSE <<>>

\* Every Reference of tree is the Reference of original at the same place,
\* moved by (cs, rs).
ShiftedBy(tree, original, cs, rs) ==
    LET got  == references(tree)
        orig == references(original)
    IN  /\ Len(got) = Len(orig)
        /\ \A i \in 1..Len(got) :
              /\ got[i].column_number = orig[i].column_number + cs
              /\ got[i].row_number = orig[i].row_number + rs

\* The text of a node written again from its components.
RECURSIVE regenerated(_)
regenerated(n) ==
    IF IsNone(n) THEN T_NONE
    ELSE IF IsFunction(n)
    THEN function_str(n.components.name,
                      [i \in 1..Len(n.components.arguments) |->
                            regenerated(n.components.arguments[i])])
    ELSE IF IsReference(n) THEN reference_str(n.components)
    ELSE IF IsRange(n)
    THEN regenerated(n.components.start) \o <<":">> \o regenerated(n.components.end)
    ELSE IF IsExpression(n)
    THEN join(<<" ">>, [i \in 1..Len(n.components) |-> regenerated(n.components[i])])
    ELSE IF IsOperator(n) THEN n.operator
    ELSE constant_str(n.constant)

\* A tree without its cached strings and without the column and row of its
\* References: shape, kinds, sheet names, constants, operators, function names.
RECURSIVE frame(_)
frame(n) ==
    IF IsNone(n) THEN [kind |-> "none"]
    ELSE IF IsFunction(n)
    THEN [kind |-> "function", name |-> n.components.name,
          arguments |-> [i \in 1..Len(n.components.arguments) |->
                            frame(n.components.arguments[i])]]
    ELSE IF IsReference(n) THEN [kind |-> "reference", sheet_name |-> n.components.sheet_name]
    ELSE IF IsRange(n)
    THEN [kind |-> "range", start |-> frame(n.components.start),
          end |-> frame(n.components.end)]
    ELSE IF IsExpression(n)
    THEN [kind |-> "expression",
          parts |-> [i \in 1..Len(n.components) |-> frame(n.components[i])]]
    ELSE IF IsOperator(n) THEN [kind |-> "operator", symbol |-> n.operator]
    ELSE [kind |-> "constant", value |-> n.constant]

HasNodeWhere(tree, P(_)) ==
    LET nodes == subnodes(tree) IN \E i \in 1..Len(nodes) : P(nodes[i])

\* Every substring of the formula was recognized.
WellFormed(tree) == ~HasNodeWhere(tree, IsNone)

Moved == col_shift # 0 \/ row_shift # 0

StripParentheses(s) == replace_char(replace_char(s, "("), ")")

\* C1: after translate(from, to) the tree that to_dict() returns has every
\* Reference moved by (columnNumber(to) - columnNumber(from),
\* rowNumber(to) - rowNumber(from)).
C1_ToDictIsTranslated ==
    (call = "to_dict" /\ ~IsNone(parsed_formula))
        => ShiftedBy(ret, parse(formula), col_shift, row_shift)

\* C2: in the tree translate produces, every FunctionCall, Expression and
\* Range node above a moved Reference carries the string written again from
\* its moved children.
C2_CachedStringsFollow ==
    (call = "translate" /\ ret_self /\ Moved)
        => LET nodes == subnodes(parsed_formula)
           IN  \A i \in 1..Len(nodes) :
                  ((IsFunction(nodes[i]) \/ IsExpression(nodes[i]) \/ IsRange(nodes[i]))
                        /\ references(nodes[i]) # <<>>)
                    => cached_string(nodes[i]) = regenerated(nodes[i])

\* C3: for a well-formed formula, whatever its spacing, the formula and its
\* reconstruction are the same text once every parenthesis is deleted.
C3_RoundTrip ==
    (call = "reconstructed_formula" /\ WellFormed(parse(formula)))
        => /\ exc = ""
           /\ StripParentheses(ret_str) = StripParentheses(full_formula)

\* C4: parse_expression of a FunctionCall node returns an equal node, and
\* parse_expression of an Expression node returns an Expression node.
C4_Reclassification ==
    (call = "parse_expression" /\ WellFormed(arg))
        => /\ IsFunction(arg) => (IsFunction(ret) /\ ret = arg)
           /\ IsExpression(arg) => IsExpression(ret)

\* C5: construction fails exactly when the text has no leading "=" or its
\* parentheses are unbalanced, with a ValueError in both cases and before
\* anything is parsed; otherwise the text is stored with and without its "=".
C5_Construction ==
    LET accepted == text # <<>> /\ text[1] = "=" /\ has_balanced_parentheses(text)
    IN  /\ constructed <=> accepted
        /\ ~constructed => (exc = "ValueError" /\ call = "__init__" /\ IsNone(ret))
        /\ constructed => (formula = Tail(text) /\ full_formula = text)

\* A text with its leading "=" and unbalanced parentheses was refused.
C5_Witness ==
    /\ ~constructed
    /\ text # <<>>
    /\ text[1] = "="
    /\ exc = "ValueError"

\* The recognizers in the order parse_expression tries them, and the key of
\* the node each one makes.
Accepts(s) ==
    <<is_function_string(s), is_valid_range(s), is_valid_reference(s),
      is_valid_constant(s), is_valid_expression(s),
      Len(s) = 1 /\ s[1] \in operators>>

KindKeys == <<"function", "range", "reference", "constant", "expression", "operator">>

FirstAccepting(s) ==
    LET a == Accepts(s)
        hits == {i \in 1..Len(a) : a[i]}
    IN  IF hits = {} THEN 0 ELSE CHOOSE i \in hits : \A j \in hits : i <= j

\* C6: parse_expression returns the node kind of the first recognizer, in the
\* order Function, Range, Reference, Constant, Expression, Operator, that
\* accepts the trimmed text, and None without raising when none does.
C6_FirstMatch ==
    call = "parse"
        => LET k == FirstAccepting(strip(formula))
           IN  /\ exc = ""
               /\ IF k = 0 THEN IsNone(ret)
                  ELSE ~IsNone(ret) /\ KindKeys[k] \in DOMAIN ret

\* A text both the Constant and the Expression recognizers accept came out a
\* Constant.
C6_Witness ==
    /\ call = "parse"
    /\ is_valid_constant(strip(formula))
    /\ is_valid_expression(strip(formula))
    /\ IsConstant(ret)

\* C7: a Range node reconstructs to start:end, each end written as its
\* Reference's text.
C7_RangeText ==
    (call = "reconstructed_formula" /\ IsRange(parse(formula)))
        => LET c == parse(formula).components
           IN  ret_str = <<"=">> \o reference_str(c.start.components) \o <<":">>
                                 \o reference_str(c.end.components)

\* C8: translate leaves the shape of the tree, the kinds, every sheet name,
\* constant, operator and function name as parse() made them.
C8_Frame ==
    ~IsNone(parsed_formula) => frame(parsed_formula) = frame(parse(formula))

\* A translation that moved a sheet-qualified Reference beside a Constant.
C8_Witness ==
    /\ call = "translate"
    /\ ret_self
    /\ col_shift # 0
    /\ row_shift # 0
    /\ HasNodeWhere(parsed_formula, IsConstant)
    /\ HasNodeWhere(parsed_formula, LAMBDA n : IsReference(n) /\ n.components.sheet_name # <<>>)

\* C9: after translate every Reference of the translated tree has row and
\* column at least 1, or translate raised.
C9_ReferenceBounds ==
    ~IsNone(parsed_formula)
        => LET refs == references(parsed_formula)
           IN  \A i \in 1..Len(refs) :
                  refs[i].row_number >= 1 /\ refs[i].column_number >= 1

\* C10: a translate returns the Parser itself and leaves formula,
\* full_formula and the trees handed out before as they were; after any
\* chain of translate calls the stored tree is the parsed formula moved by
\* the last call's shifts only.
C10_Chain ==
    /\ [](~IsNone(parsed_formula)
            => ShiftedBy(parsed_formula, parse(formula), col_shift, row_shift))
    /\ [][call' = "translate"
            => /\ formula' = formula
               /\ full_formula' = full_formula
               /\ ret' = ret
               /\ (exc' = "" => ret_self')]_vars

\* A second translate, with a tree handed out before it, has moved References.
C10_Witness ==
    /\ chained
    /\ call = "translate"
    /\ ret_self
    /\ Moved
    /\ ~IsNone(ret)
    /\ references(parsed_formula) # <<>>

====
